---------------------------- MODULE Spec2Model ----------------------------
(***************************************************************************)
(* Fibonacci Face Analyzer: the Application Controller (App.tsx), the      *)
(* Analysis Client (services/geminiService.ts) and the image sources of    *)
(* ImageUploader / CameraView, as one event-driven state machine.          *)
(*                                                                         *)
(* Execution is single-threaded: every action below is one browser task    *)
(* (a DOM event or a callback) together with the React re-render that      *)
(* follows it.  A promise that is rejected synchronously settles in a      *)
(* microtask, which runs before any other task: MicrotaskPending blocks    *)
(* every other action until it has run.                                    *)
(***************************************************************************)
EXTENDS Integers, Sequences, FiniteSets, Bags, TLC

(* ------------------------------ bounds -------------------------------- *)
\* analyzeFace invocations in one run
MaxCalls == 2
\* CameraView instances tracked at the same time
MaxCams == 1
\* canvas.toBlob callbacks pending per CameraView instance
MaxBlobs == 1
\* handleDownload runs in one run
MaxDownloads == 2
\* presses of the share button in one run
MaxPresses == 2
\* changes of AnnotatedImage's imageSrc in one run
MaxSrcChanges == 2
\* deviations of a detail row range over -MaxDeviation..MaxDeviation
MaxDeviation == 30
\* width and height of the rasterized canvas range over 1..MaxCanvas
MaxCanvas == 8

(* ------------------------------ values -------------------------------- *)
\* JavaScript null / undefined
Null == [null |-> TRUE]

\* types.ts: enum AppState
Idle == "Idle"
Loading == "Loading"
Result == "Result"
Error == "Error"
AppStates == {Idle, Loading, Result, Error}

\* Files the user can pick in the file dialog (name, MIME type)
UploadFiles ==
  { [name |-> "b.png", type |-> "image/png"],
    [name |-> "c.jpg", type |-> "image/jpg"],
    [name |-> "d.gif", type |-> "image/gif"] }

\* CameraView.handleCapture: new File([blob], `capture-...jpg`, {type: 'image/jpeg'})
CaptureFile == [name |-> "capture.jpg", type |-> "image/jpeg"]

\* variant of acceptedTypes: the list also lets GIF through
acceptedTypes_WithGif == {"image/jpeg", "image/png", "image/jpg", "image/gif"}

\* App.handleImageUpload: const acceptedTypes
acceptedTypes == {"image/jpeg", "image/png", "image/jpg"}

\* user-facing texts of App.tsx
UnsupportedMsg == [msg |-> "Unsupported file type. Please upload a photo in JPG or PNG format."]
NoImageMsg == [msg |-> "Please upload an image to analyze."]
UnknownErrorText == "An unknown error occurred during analysis."
DetailsMsg(detail) ==
  [msg |-> "Unable to analyze. Please re-upload a clear image. Details: ", detail |-> detail]

\* errors thrown by analyzeFace (instances of Error carry a message)
ConfigError == [isError |-> TRUE, message |-> "API_KEY environment variable not set"]
InputRequired == [isError |-> TRUE, message |-> "An image is required for analysis."]
ParseError ==
  [isError |-> TRUE,
   message |-> "Could not parse the analysis result from the AI. The response was not valid JSON."]
\* rejection of generateContent: an Error of the SDK / fetch
TransportError == [isError |-> TRUE, message |-> "fetch failed"]
\* FileReader.onerror rejects with the ProgressEvent, which is no Error
ReaderErrorEvent == [isError |-> FALSE]
\* reading a property of null
NullTypeError == [isError |-> TRUE, message |-> "Cannot read properties of null (reading 'error')"]


(* ------------------------ the service's replies ----------------------- *)
\* a well-formed success reply (spec section 8)
OkResult ==
  [overallScore |-> 82, feedback |-> "Balanced proportions.",
   featureScores |-> <<[feature |-> "Facial Symmetry", score |-> 90]>>,
   detailedScores |-> <<[ratioName |-> "Face Width / Height", value |-> "1.62", deviation |-> 1]>>,
   overlayLines |-> <<>>]
\* the reply the prompt asks for when several faces are seen
MultipleFacesResult ==
  [overallScore |-> 0, feedback |-> "", featureScores |-> <<>>, detailedScores |-> <<>>,
   overlayLines |-> <<>>, error |-> "MULTIPLE_FACES",
   errorMessage |-> "Please upload a clear photo with only one visible face."]
\* a reply that sets error and omits the optional errorMessage
NoFaceResult ==
  [overallScore |-> 0, feedback |-> "", featureScores |-> <<>>, detailedScores |-> <<>>,
   overlayLines |-> <<>>, error |-> "NO_FACE"]
\* the JSON literal null
JsonNull == [json |-> "null"]
\* JSON.parse throws a SyntaxError
SyntaxError == [syntaxError |-> TRUE]

\* response.text as the service may send it
ServiceTexts == {"ok", "multiple_faces", "no_face", "null", "not json"}

\* JSON.parse(response.text.trim())
JSONParse(text) ==
  CASE text = "ok" -> OkResult
    [] text = "multiple_faces" -> MultipleFacesResult
    [] text = "no_face" -> NoFaceResult
    [] text = "null" -> JsonNull
    [] OTHER -> SyntaxError

\* JavaScript truthiness of result[f]: a missing property is undefined, "" is falsy
Truthy(r, f) == f \in DOMAIN r /\ r[f] # ""

(* --------------------------- Analysis Client -------------------------- *)
\* variant of analyzeFaceEntry: the image is checked before the credential
analyzeFaceEntry_ImageFirst(key, img) ==
  IF img = Null THEN [pc |-> "threw", err |-> InputRequired]
  ELSE IF ~key THEN [pc |-> "threw", err |-> ConfigError]
  ELSE [pc |-> "encoding", err |-> Null]

\* analyzeFace, up to its first await: the two checks, then the FileReader is started
analyzeFaceEntry(key, img) ==
  IF ~key THEN [pc |-> "threw", err |-> ConfigError]
  ELSE IF img = Null THEN [pc |-> "threw", err |-> InputRequired]
  ELSE [pc |-> "encoding", err |-> Null]

\* analyzeFace, after generateContent resolved: parse and return, or throw
\* (settled: "returned" with the value, "failed" with the error)
analyzeFaceParse(text) ==
  IF JSONParse(text) = SyntaxError
    THEN [settled |-> "failed", err |-> ParseError]
    ELSE [settled |-> "returned", value |-> JSONParse(text)]

(* ------------------------ Application Controller ---------------------- *)
\* variant of handleImageUpload: a rejected file also drops the attached image
handleImageUpload_RejectClears(c, file) ==
  IF file.type \notin acceptedTypes
    THEN [c EXCEPT !.error = UnsupportedMsg, !.appState = Error, !.image = Null]
    ELSE [c EXCEPT !.error = Null, !.appState = Idle, !.image = [file |-> file]]

\* variant of handleImageUpload: an accepted file does not clear the error text
handleImageUpload_KeepsError(c, file) ==
  IF file.type \notin acceptedTypes
    THEN [c EXCEPT !.error = UnsupportedMsg, !.appState = Error]
    ELSE [c EXCEPT !.appState = Idle, !.image = [file |-> file]]

\* handleImageUpload(file) on the controller state c
handleImageUpload(c, file) ==
  IF file.type \notin acceptedTypes
    THEN [c EXCEPT !.error = UnsupportedMsg, !.appState = Error]
    ELSE [c EXCEPT !.error = Null, !.appState = Idle, !.image = [file |-> file]]

\* handleRemoveImage
handleRemoveImage(c) == [c EXCEPT !.image = Null]

\* handleAnalyze, up to its await; starts says whether analyzeFace is called
handleAnalyzeStarts(c) == c.image # Null
handleAnalyzeSync(c) ==
  IF c.image = Null
    THEN [c EXCEPT !.error = NoImageMsg]
    ELSE [c EXCEPT !.appState = Loading, !.error = Null]

\* variant of handleAnalyzeCatch: the failure also discards the stored result
handleAnalyzeCatch_DropsResult(c, err) ==
  [c EXCEPT !.error = DetailsMsg(IF err.isError THEN err.message ELSE UnknownErrorText),
            !.appState = Error, !.analysisResult = Null]

\* handleAnalyze: the catch block
handleAnalyzeCatch(c, err) ==
  [c EXCEPT !.error = DetailsMsg(IF err.isError THEN err.message ELSE UnknownErrorText),
            !.appState = Error]

\* variant of handleAnalyzeResolved: Result is entered without storing the result
handleAnalyzeResolved_NotStored(c, result) ==
  IF result = JsonNull
    THEN handleAnalyzeCatch(c, NullTypeError)
  ELSE IF Truthy(result, "error") /\ Truthy(result, "errorMessage")
    THEN [c EXCEPT !.error = [msg |-> result.errorMessage], !.appState = Error]
    ELSE [c EXCEPT !.appState = Result]

\* handleAnalyze: after the await resolved with result
handleAnalyzeResolved(c, result) ==
  IF result = JsonNull
    THEN handleAnalyzeCatch(c, NullTypeError)
  ELSE IF Truthy(result, "error") /\ Truthy(result, "errorMessage")
    THEN [c EXCEPT !.error = [msg |-> result.errorMessage], !.appState = Error]
    ELSE [c EXCEPT !.analysisResult = result, !.appState = Result]

\* handleReset
handleReset(c) ==
  [c EXCEPT !.image = Null, !.analysisResult = Null, !.appState = Idle, !.error = Null]

\* renderContent: the texts of the controller that the rendered view shows
\* (only the Error view renders {error}; the Idle view renders ImageUploader)
renderContent(c) ==
  CASE c.appState = Loading -> [view |-> "Loader", text |-> Null]
    [] c.appState = Result ->
         IF c.analysisResult # Null
           THEN [view |-> "AnalysisReport", text |-> Null]
           ELSE [view |-> "none", text |-> Null]
    [] c.appState = Error -> [view |-> "ErrorView", text |-> c.error]
    [] OTHER -> [view |-> "ImageUploader", text |-> Null]

(* ------------------------------ CameraView ---------------------------- *)
\* names of the rejections of getUserMedia; "TypeError" is no DOMException
DenyNames == {"NotAllowedError", "TypeError"}

\* startCamera's catch block: the message for a rejection
cameraErrorMessage(name) ==
  CASE name = "NotAllowedError" ->
         "Camera access was denied. Please allow camera permission in your browser's site settings and try again."
    [] name = "NotFoundError" ->
         "No camera found on this device. Please make sure a camera is connected and enabled."
    [] name = "NotReadableError" ->
         "The camera could not be started. It might be in use by another app, or there could be a hardware error."
    [] name = "OverconstrainedError" ->
         "The available camera does not support the required settings."
    [] name = "TypeError" ->
         "An unexpected error occurred while trying to access the camera."
    [] OTHER ->
         "Could not access the camera. Please check permissions and ensure it's not in use by another application."

\* a CameraView instance right after it mounted: useEffect has called getUserMedia
\*   mounted       the component is mounted
\*   host          the ImageUploader instance that rendered it is still mounted
\*   req           the getUserMedia promise: pending | granted | denied
\*   activeStream  the effect's closure variable holds the stream
\*   stream, error the component's state
\*   live          the stream's tracks are running
\*   blobs         canvas.toBlob callbacks not yet delivered
NewCamera ==
  [mounted |-> TRUE, host |-> TRUE, req |-> "pending", activeStream |-> FALSE,
   stream |-> FALSE, error |-> Null, live |-> FALSE, blobs |-> 0]

\* unmount of a CameraView: the effect's cleanup stops the tracks of activeStream,
\* and the component's state is discarded
unmountCamera(cam) ==
  IF cam.mounted
    THEN [cam EXCEPT !.mounted = FALSE, !.stream = FALSE, !.error = Null,
                     !.live = cam.live /\ ~cam.activeStream]
    ELSE cam

\* an instance nothing can happen to any more is dropped from the model
Finished(cam) == ~cam.mounted /\ cam.req # "pending" /\ cam.blobs = 0 /\ ~cam.live
DropFinished(cs) == SelectSeq(cs, LAMBDA cam : ~Finished(cam))

\* ImageUploader: setIsCameraOpen(false) by an instance that is still mounted
closeCameras(cs) == [k \in DOMAIN cs |-> IF cs[k].host THEN unmountCamera(cs[k]) ELSE cs[k]]

\* ImageUploader unmounts (renderContent leaves the Idle branch): its CameraView goes too
unmountUploader(cs) == [k \in DOMAIN cs |-> [unmountCamera(cs[k]) EXCEPT !.host = FALSE]]

\* host is read only by a pending toBlob callback: without one it is not tracked
Normalize(cam) == IF ~cam.mounted /\ cam.blobs = 0 THEN [cam EXCEPT !.host = FALSE] ELSE cam
Tracked(cs) == LET live == DropFinished(cs) IN [k \in DOMAIN live |-> Normalize(live[k])]

(* ------------------------------- state -------------------------------- *)
VARIABLES
  apiKey,          \* process.env.API_KEY is set
  image,           \* App: useState<ImageFile | null>
  analysisResult,  \* App: useState<AnalysisResult | null>
  appState,        \* App: useState<AppState>
  error,           \* App: useState<string | null>
  pickerOpen,      \* the file dialog of UploadBox's <input type="file"> is open
  urls,            \* unreleased object URLs made by UploadBox (box) and AnalysisReport (report)
  cams,            \* the CameraView instances with something still pending
  calls,           \* the analyzeFace calls that have not settled yet (a bag of records)
  nStarted,        \* analyzeFace invocations so far
  nEncode,         \* FileReader.readAsDataURL invocations so far
  nNet,            \* ai.models.generateContent invocations so far
  afterReset,      \* history: handleReset ran and no image was supplied since
  last             \* history: the handler or callback that ran in the last step

\* the AnalysisReport component, its exporter and the browser services it uses
VARIABLES
  showDetails,     \* AnalysisReport state: the detailed analysis is shown
  isDownloading,   \* AnalysisReport state: the download button is disabled
  shareText,       \* AnalysisReport state: the label of the share button
  download,        \* handleDownload's position and its local shouldShowDetailsForPdf
  pdf,             \* generatePdf's position and its local originalBg
  backgroundColor, \* element.style.backgroundColor of the report region
  libsLoaded,      \* window.html2canvas and window.jspdf.jsPDF are defined
  canShare,        \* navigator.share is defined
  alertText,       \* the last alert() shown
  nDownloads,      \* handleDownload runs that passed the reportRef check
  nRaster,         \* window.html2canvas invocations so far
  nNative,         \* navigator.share promises not settled yet
  nClipboard,      \* navigator.clipboard.writeText promises not settled yet
  nTimers,         \* pending setTimeout(() => setShareText('Share'), 2000)
  nPresses,        \* presses of the share button so far
  initialBg        \* history: backgroundColor before any export

reportVars == <<showDetails, isDownloading, shareText, download, pdf, backgroundColor,
                libsLoaded, canShare, alertText, nDownloads, nRaster, nNative, nClipboard,
                nTimers, nPresses, initialBg>>

\* the AnnotatedImage component and the layout of its container
VARIABLES
  imageSrc,        \* the image AnnotatedImage shows (its natural dimensions)
  lines,           \* the overlay lines, coordinates in tenths
  containerWidth,  \* containerRef.current.offsetWidth
  dimensions,      \* AnnotatedImage state: the size of the svg overlay
  loading,         \* the Image objects made by the effect whose onload has not run
  nSrc             \* imageSrc changes so far

overlayVars == <<imageSrc, lines, containerWidth, dimensions, loading, nSrc>>

\* what the report renders from the result, and the exported document
VARIABLES
  deviation,       \* item.deviation of a detailedScores row
  band,            \* the colour class the row's deviation is rendered with
  canvas,          \* the canvas html2canvas resolved with (width, height)
  orientation,     \* the orientation option given to new jsPDF
  score,           \* the score prop of a ProgressBar
  width,           \* ProgressBar state: the bar's width in percent
  timer,           \* the pending setTimeout(() => setWidth(score), 100) of the effect
  barMounted       \* the ProgressBar is rendered

renderVars == <<deviation, band, canvas, orientation, score, width, timer, barMounted>>

\* the controller, the uploader, the cameras and the analysis calls
appVars == <<apiKey, image, analysisResult, appState, error, urls, pickerOpen, cams, calls,
             nStarted, nEncode, nNet, afterReset>>

vars == <<apiKey, image, analysisResult, appState, error, urls, pickerOpen, cams, calls,
          nStarted, nEncode, nNet, afterReset, last, reportVars, overlayVars,
          renderVars>>

\* the controller's state as one record
Ctrl == [image |-> image, analysisResult |-> analysisResult, appState |-> appState, error |-> error]

\* a synchronously rejected analyzeFace promise: its catch runs in a microtask
MicrotaskPending == \E call \in BagToSet(calls) : call.pc = "threw"

\* the ImageUploader is rendered and the page takes user input
UploaderReady == appState = Idle /\ ~pickerOpen /\ ~MicrotaskPending

\* variant of previewEffect: the effect returns no cleanup function
previewEffect_NoCleanup(wasMounted, isMounted, imgBefore, imgAfter, n) ==
  IF isMounted /\ imgAfter # Null /\ (~wasMounted \/ imgAfter # imgBefore) THEN n + 1 ELSE n

\* useEffect(..., [image]) of UploadBox and of AnalysisReport over one render: the cleanup
\* of the previous run (URL.revokeObjectURL) when the component unmounts or image changed,
\* then URL.createObjectURL when the component is mounted with a new image that has a
\* file; n counts the component's unreleased URLs. (Attaching an equal file again revokes
\* one URL and creates one, which leaves n as it is.)
previewEffect(wasMounted, isMounted, imgBefore, imgAfter, n) ==
  LET released == IF wasMounted /\ imgBefore # Null /\ (~isMounted \/ imgAfter # imgBefore)
                    THEN n - 1 ELSE n
  IN  IF isMounted /\ imgAfter # Null /\ (~wasMounted \/ imgAfter # imgBefore)
        THEN released + 1 ELSE released

\* the state change of a step and the re-render after it: the controller becomes c,
\* the cameras cs and the file dialog p, unless the ImageUploader unmounts
Commit(c, cs, p) ==
  /\ image' = c.image
  /\ analysisResult' = c.analysisResult
  /\ appState' = c.appState
  /\ error' = c.error
  /\ urls' = [box    |-> previewEffect(appState = Idle, c.appState = Idle,
                                       image, c.image, urls.box),
              report |-> previewEffect(renderContent(Ctrl).view = "AnalysisReport",
                                       renderContent(c).view = "AnalysisReport",
                                       image, c.image, urls.report)]
  /\ IF appState = Idle /\ c.appState # Idle
       THEN cams' = Tracked(unmountUploader(cs)) /\ pickerOpen' = FALSE
       ELSE cams' = Tracked(cs) /\ pickerOpen' = p

\* no detail row has been rendered
NoRow == deviation = 0 /\ band = "none"
\* no document has been created
NoDocument == canvas = [width |-> 1, height |-> 1] /\ orientation = "none"
\* no ProgressBar has been rendered
NoProgressBar == score = 0 /\ width = 0 /\ timer = [pending |-> FALSE] /\ barMounted = FALSE

\* no AnnotatedImage has been rendered
NoOverlay ==
  /\ imageSrc = Null
  /\ lines = <<>>
  /\ containerWidth = 0
  /\ dimensions = [width |-> 0, height |-> 0]
  /\ loading = {}
  /\ nSrc = 0

\* no AnalysisReport has been rendered: its state is what useState will start from
NoReport ==
  /\ showDetails = FALSE
  /\ isDownloading = FALSE
  /\ shareText = "Share"
  /\ download = [pc |-> "idle", shouldShowDetailsForPdf |-> FALSE]
  /\ pdf = [pc |-> "none", originalBg |-> ""]
  /\ backgroundColor = ""
  /\ initialBg = ""
  /\ libsLoaded = TRUE
  /\ canShare = TRUE
  /\ alertText = "none"
  /\ nDownloads = 0
  /\ nRaster = 0
  /\ nNative = 0
  /\ nClipboard = 0
  /\ nTimers = 0
  /\ nPresses = 0

Init ==
  /\ apiKey \in BOOLEAN
  /\ image = Null
  /\ analysisResult = Null
  /\ appState = Idle
  /\ error = Null
  /\ pickerOpen = FALSE
  /\ urls = [box |-> 0, report |-> 0]
  /\ cams = <<>>
  /\ calls = EmptyBag
  /\ nStarted = 0
  /\ nEncode = 0
  /\ nNet = 0
  /\ afterReset = FALSE
  /\ last = [op |-> "init"]
  /\ NoReport
  /\ NoOverlay
  /\ NoRow /\ NoDocument /\ NoProgressBar

(* --------------------------- user: the uploader ----------------------- *)
\* UploadBox.handleBoxClick / handleBoxKeyDown: the dialog opens only when no image is shown
OpenPicker ==
  /\ UploaderReady
  /\ image = Null
  /\ pickerOpen' = TRUE
  /\ last' = [op |-> "openPicker"]
  /\ UNCHANGED <<renderVars, overlayVars, reportVars, apiKey, image, analysisResult, appState, error, urls, cams, calls,
                 nStarted, nEncode, nNet, afterReset>>

\* the dialog is dismissed: handleFileChange sees no file
CancelPicker ==
  /\ pickerOpen
  /\ ~MicrotaskPending
  /\ pickerOpen' = FALSE
  /\ last' = [op |-> "cancelPicker"]
  /\ UNCHANGED <<renderVars, overlayVars, reportVars, apiKey, image, analysisResult, appState, error, urls, cams, calls,
                 nStarted, nEncode, nNet, afterReset>>

\* UploadBox.handleFileChange with a file: onImageUpload(file)
PickFile(file) ==
  /\ pickerOpen
  /\ ~MicrotaskPending
  /\ Commit(handleImageUpload(Ctrl, file), cams, FALSE)
  /\ afterReset' = FALSE
  /\ last' = [op |-> "upload", file |-> file]
  /\ UNCHANGED <<renderVars, overlayVars, reportVars, apiKey, calls, nStarted, nEncode, nNet>>

\* the remove button of the preview: onRemoveImage()
RemoveImage ==
  /\ UploaderReady
  /\ image # Null
  /\ Commit(handleRemoveImage(Ctrl), cams, pickerOpen)
  /\ last' = [op |-> "remove"]
  /\ UNCHANGED <<renderVars, overlayVars, reportVars, apiKey, calls, nStarted, nEncode, nNet, afterReset>>

\* handleReset: "Try Again" of the Error view, "Analyze Another" of the report
Reset ==
  /\ ~MicrotaskPending
  /\ renderContent(Ctrl).view \in {"ErrorView", "AnalysisReport"}
  /\ Commit(handleReset(Ctrl), cams, pickerOpen)
  /\ afterReset' = TRUE
  /\ last' = [op |-> "reset"]
  /\ UNCHANGED <<renderVars, overlayVars, reportVars, apiKey, calls, nStarted, nEncode, nNet>>

(* --------------------------- analysis calls --------------------------- *)
\* an analyzeFace(img) invocation by caller: the record of the pending promise
StartCall(img, caller) ==
  LET entry == analyzeFaceEntry(apiKey, img) IN
  /\ nStarted < MaxCalls
  /\ calls' = calls (+) SetToBag({[img |-> img, pc |-> entry.pc, err |-> entry.err, caller |-> caller]})
  /\ nStarted' = nStarted + 1
  /\ nEncode' = IF entry.pc = "encoding" THEN nEncode + 1 ELSE nEncode
  /\ nNet' = nNet

\* the "Analyze Face" button: handleAnalyze up to its await.  The handler is the
\* controller's; the button's disabled attribute is the view's, so the handler's own
\* check of image is modelled as reachable.
HandleAnalyze ==
  /\ UploaderReady
  /\ Commit(handleAnalyzeSync(Ctrl), cams, pickerOpen)
  /\ IF handleAnalyzeStarts(Ctrl)
       THEN StartCall(image, "app")
       ELSE UNCHANGED <<calls, nStarted, nEncode, nNet>>
  /\ last' = [op |-> "analyze", started |-> handleAnalyzeStarts(Ctrl)]
  /\ UNCHANGED <<renderVars, overlayVars, reportVars, apiKey, afterReset>>

\* the promise of call settles with outcome; the awaiting handleAnalyze continues
Settle(call, outcome) ==
  /\ calls' = calls (-) SetToBag({call})
  /\ IF call.caller = "app"
       THEN Commit(IF outcome.settled = "returned"
                     THEN handleAnalyzeResolved(Ctrl, outcome.value)
                     ELSE handleAnalyzeCatch(Ctrl, outcome.err),
                   cams, pickerOpen)
       ELSE UNCHANGED <<image, analysisResult, appState, error, urls, cams, pickerOpen>>
  /\ last' = [op |-> "settle", caller |-> call.caller, outcome |-> outcome]
  /\ UNCHANGED <<renderVars, overlayVars, reportVars, apiKey, nStarted, nEncode, nNet, afterReset>>

\* microtask: the promise that analyzeFace rejected at its checks reaches the catch
CallThrew(call) ==
  /\ call.pc = "threw"
  /\ Settle(call, [settled |-> "failed", err |-> call.err])

\* FileReader.onload: the image part is ready and generateContent is invoked
EncodeDone(call) ==
  /\ ~MicrotaskPending
  /\ call.pc = "encoding"
  /\ calls' = (calls (-) SetToBag({call})) (+) SetToBag({[call EXCEPT !.pc = "requesting"]})
  /\ nNet' = nNet + 1
  /\ last' = [op |-> "encoded"]
  /\ UNCHANGED <<renderVars, overlayVars, reportVars, apiKey, image, analysisResult, appState, error, urls, pickerOpen, cams,
                 nStarted, nEncode, afterReset>>

\* FileReader.onerror: reject(error) with the event
EncodeFails(call) ==
  /\ ~MicrotaskPending
  /\ call.pc = "encoding"
  /\ Settle(call, [settled |-> "failed", err |-> ReaderErrorEvent])

\* generateContent resolves with response.text = text
ServiceResponds(call, text) ==
  /\ ~MicrotaskPending
  /\ call.pc = "requesting"
  /\ Settle(call, analyzeFaceParse(text))

\* variant of ServiceFails: a rejected request is issued again instead of surfacing
ServiceFails_Retry(call) ==
  /\ ~MicrotaskPending
  /\ call.pc = "requesting"
  /\ nNet' = nNet + 1
  /\ last' = [op |-> "retry"]
  /\ UNCHANGED <<renderVars, overlayVars, reportVars, apiKey, image, analysisResult, appState, error, urls, pickerOpen, cams, calls,
                 nStarted, nEncode, afterReset>>

\* generateContent rejects (network or service failure)
ServiceFails(call) ==
  /\ ~MicrotaskPending
  /\ call.pc = "requesting"
  /\ Settle(call, [settled |-> "failed", err |-> TransportError])

(* ------------------------------ the camera ---------------------------- *)
\* "Use Camera": setIsCameraOpen(true); the button is rendered only when no image is shown
OpenCamera ==
  /\ UploaderReady
  /\ image = Null
  /\ \A k \in DOMAIN cams : ~cams[k].mounted
  /\ Len(cams) < MaxCams
  /\ cams' = Append(cams, NewCamera)
  /\ last' = [op |-> "openCamera"]
  /\ UNCHANGED <<renderVars, overlayVars, reportVars, apiKey, image, analysisResult, appState, error, urls, pickerOpen, calls,
                 nStarted, nEncode, nNet, afterReset>>

\* the close button of CameraView: onClose()
CloseCamera(k) ==
  /\ UploaderReady
  /\ cams[k].mounted
  /\ cams' = Tracked([cams EXCEPT ![k] = unmountCamera(cams[k])])
  /\ last' = [op |-> "closeCamera"]
  /\ UNCHANGED <<renderVars, overlayVars, reportVars, apiKey, image, analysisResult, appState, error, urls, pickerOpen, calls,
                 nStarted, nEncode, nNet, afterReset>>

\* getUserMedia resolves: startCamera keeps the stream, mounted or not
CameraGranted(k) ==
  /\ ~MicrotaskPending
  /\ cams[k].req = "pending"
  /\ cams' = Tracked([cams EXCEPT ![k] =
                [@ EXCEPT !.req = "granted", !.activeStream = TRUE, !.live = TRUE,
                          !.stream = @ \/ cams[k].mounted, !.error = Null]])
  /\ last' = [op |-> "cameraGranted"]
  /\ UNCHANGED <<renderVars, overlayVars, reportVars, apiKey, image, analysisResult, appState, error, urls, pickerOpen, calls,
                 nStarted, nEncode, nNet, afterReset>>

\* getUserMedia rejects: startCamera's catch sets the message
CameraDenied(k, name) ==
  /\ ~MicrotaskPending
  /\ cams[k].req = "pending"
  /\ cams' = Tracked([cams EXCEPT ![k] =
                [@ EXCEPT !.req = "denied",
                          !.error = IF cams[k].mounted
                                      THEN [msg |-> cameraErrorMessage(name)] ELSE Null]])
  /\ last' = [op |-> "cameraDenied"]
  /\ UNCHANGED <<renderVars, overlayVars, reportVars, apiKey, image, analysisResult, appState, error, urls, pickerOpen, calls,
                 nStarted, nEncode, nNet, afterReset>>

\* variant of canCapture: the handler does not look at stream
canCapture_NoStreamCheck(cam) == cam.error = Null

\* CameraView.handleCapture can draw: the video element is rendered and stream is set
canCapture(cam) == cam.error = Null /\ cam.stream

\* the capture button: CameraView.handleCapture; it returns early without a stream,
\* else canvas.toBlob is started
CaptureClick(k) ==
  /\ UploaderReady
  /\ cams[k].mounted
  /\ cams[k].blobs < MaxBlobs
  /\ cams' = IF canCapture(cams[k]) THEN [cams EXCEPT ![k].blobs = @ + 1] ELSE cams
  /\ last' = [op |-> "captureClick", took |-> canCapture(cams[k])]
  /\ UNCHANGED <<renderVars, overlayVars, reportVars, apiKey, image, analysisResult, appState, error, urls, pickerOpen, calls,
                 nStarted, nEncode, nNet, afterReset>>

\* the toBlob callback of instance k: without a blob nothing happens; with one,
\* onCapture(file) = ImageUploader.handleCapture: onImageUpload(file), setIsCameraOpen(false)
BlobReady(k, hasBlob) ==
  /\ ~MicrotaskPending
  /\ cams[k].blobs > 0
  /\ LET cs == [cams EXCEPT ![k].blobs = @ - 1] IN
     IF hasBlob
       THEN /\ Commit(handleImageUpload(Ctrl, CaptureFile),
                      IF cs[k].host THEN closeCameras(cs) ELSE cs, pickerOpen)
            /\ afterReset' = FALSE
       ELSE /\ cams' = Tracked(cs)
            /\ UNCHANGED <<image, analysisResult, appState, error, urls, pickerOpen, afterReset>>
  /\ last' = [op |-> "capture", file |-> IF hasBlob THEN CaptureFile ELSE Null]
  /\ UNCHANGED <<renderVars, overlayVars, reportVars, apiKey, calls, nStarted, nEncode, nNet>>

(* --------------------------- specifications --------------------------- *)
Next ==
  \/ OpenPicker
  \/ CancelPicker
  \/ \E file \in UploadFiles : PickFile(file)
  \/ RemoveImage
  \/ Reset
  \/ HandleAnalyze
  \/ \E call \in BagToSet(calls) : CallThrew(call)
  \/ \E call \in BagToSet(calls) : EncodeDone(call)
  \/ \E call \in BagToSet(calls) : EncodeFails(call)
  \/ \E call \in BagToSet(calls), text \in ServiceTexts : ServiceResponds(call, text)
  \/ \E call \in BagToSet(calls) : ServiceFails(call)
  \/ OpenCamera
  \/ \E k \in DOMAIN cams : CloseCamera(k)
  \/ \E k \in DOMAIN cams : CameraGranted(k)
  \/ \E k \in DOMAIN cams, name \in DenyNames : CameraDenied(k, name)
  \/ \E k \in DOMAIN cams : CaptureClick(k)
  \/ \E k \in DOMAIN cams, hasBlob \in BOOLEAN : BlobReady(k, hasBlob)

Spec == Init /\ [][Next]_vars

\* The Analysis Client on its own: analyzeFace applied to every input, image or null
ClientInputs == {[file |-> f] : f \in UploadFiles \cup {CaptureFile}} \cup {Null}

\* a direct invocation analyzeFace(img)
DirectCall(img) ==
  /\ ~MicrotaskPending
  /\ StartCall(img, "direct")
  /\ last' = [op |-> "direct", img |-> img]
  /\ UNCHANGED <<renderVars, overlayVars, reportVars, apiKey, image, analysisResult, appState, error, urls, pickerOpen, cams,
                 afterReset>>

NextClient ==
  \/ \E img \in ClientInputs : DirectCall(img)
  \/ \E call \in BagToSet(calls) : CallThrew(call)
  \/ \E call \in BagToSet(calls) : EncodeDone(call)
  \/ \E call \in BagToSet(calls) : EncodeFails(call)
  \/ \E call \in BagToSet(calls), text \in ServiceTexts : ServiceResponds(call, text)
  \/ \E call \in BagToSet(calls) : ServiceFails(call)

SpecClient == Init /\ [][NextClient]_vars

(* --------------------- AnalysisReport and exporter -------------------- *)
\* element.style.backgroundColor values the report region may start with
Backgrounds == {"", "rgb(23, 23, 23)"}
\* the background generatePdf forces for the capture
CaptureBg == "#262626"
LibraryAlert == "Sorry, there was a problem loading the PDF generation library."
FailedAlert == "An error occurred while generating the PDF report."
\* how a capture can end: saved, html2canvas rejected, or toDataURL/jsPDF/addImage/save threw
ExportOutcomes == {"saved", "rasterFailed", "documentFailed"}

\* the AnalysisReport is rendered (reportRef.current is its element, setState takes effect)
ReportMounted == renderContent(Ctrl).view = "AnalysisReport"

\* generatePdf up to its first await: the element check, then the library check
generatePdfEntry(elementPresent, libs) ==
  IF ~elementPresent THEN "noElement"
  ELSE IF ~libs THEN "noLibs"
  ELSE "capture"

\* variant of generatePdfSettled: the catch block does not restore the background
generatePdfSettled_CatchKeepsBg(outcome, originalBg, current) ==
  IF outcome = "rasterFailed" THEN current ELSE originalBg

\* element.style.backgroundColor when generatePdf ends: restored after html2canvas
\* resolved, and restored (again) in the catch block
generatePdfSettled(outcome, originalBg, current) ==
  IF outcome = "saved" THEN originalBg
  ELSE IF outcome = "documentFailed" THEN originalBg
  ELSE originalBg

\* handleShare after clipboard.writeText resolved
handleShareCopied == [shareText |-> "Copied!", timers |-> 1]
\* variant of handleShareFailed: the catch block schedules no revert
handleShareFailed_NoTimer == [shareText |-> "Failed!", timers |-> 0]
\* handleShare's catch block after clipboard.writeText rejected
handleShareFailed == [shareText |-> "Failed!", timers |-> 1]

\* the controller after an analysis returned a result: the AnalysisReport is rendered
ReportRendered ==
  /\ apiKey = TRUE
  /\ image \in {[file |-> f] : f \in {u \in UploadFiles : u.type \in acceptedTypes}}
  /\ analysisResult = OkResult
  /\ appState = Result
  /\ error = Null
  /\ pickerOpen = FALSE
  /\ urls = [box |-> 0, report |-> 1]
  /\ cams = <<>>
  /\ calls = EmptyBag
  /\ nStarted = 1
  /\ nEncode = 1
  /\ nNet = 1
  /\ afterReset = FALSE
  /\ last = [op |-> "settle", caller |-> "app",
             outcome |-> [settled |-> "returned", value |-> OkResult]]

\* a report has just been rendered for a returned result
InitReport ==
  /\ ReportRendered
  /\ NoOverlay
  /\ NoRow /\ NoDocument /\ NoProgressBar
  /\ showDetails = FALSE
  /\ isDownloading = FALSE
  /\ shareText = "Share"
  /\ download = [pc |-> "idle", shouldShowDetailsForPdf |-> FALSE]
  /\ pdf = [pc |-> "none", originalBg |-> ""]
  /\ backgroundColor \in Backgrounds
  /\ initialBg = backgroundColor
  /\ libsLoaded \in BOOLEAN
  /\ canShare \in BOOLEAN
  /\ alertText = "none"
  /\ nDownloads = 0
  /\ nRaster = 0
  /\ nNative = 0
  /\ nClipboard = 0
  /\ nTimers = 0
  /\ nPresses = 0

\* the "Show/Hide Detailed Analysis" button
ToggleDetails ==
  /\ ReportMounted
  /\ showDetails' = ~showDetails
  /\ last' = [op |-> "toggleDetails"]
  /\ UNCHANGED <<renderVars, overlayVars, appVars, isDownloading, shareText, download, pdf, backgroundColor, libsLoaded,
                 canShare, alertText, nDownloads, nRaster, nNative, nClipboard, nTimers,
                 nPresses, initialBg>>

\* handleDownload up to its first await; the button is disabled while isDownloading
DownloadClick ==
  /\ ReportMounted
  /\ ~isDownloading
  /\ nDownloads < MaxDownloads
  /\ isDownloading' = TRUE
  /\ download' = [pc |-> "domWait", shouldShowDetailsForPdf |-> showDetails]
  /\ showDetails' = TRUE
  /\ nDownloads' = nDownloads + 1
  /\ last' = [op |-> "download"]
  /\ UNCHANGED <<renderVars, overlayVars, appVars, shareText, pdf, backgroundColor, libsLoaded, canShare, alertText,
                 nRaster, nNative, nClipboard, nTimers, nPresses, initialBg>>

\* variant of DownloadTail: the detail panel is left as the capture needed it
DownloadTail_KeepsDetailsOpen ==
  /\ showDetails' = showDetails
  /\ isDownloading' = IF ReportMounted THEN FALSE ELSE isDownloading
  /\ download' = [pc |-> "idle", shouldShowDetailsForPdf |-> FALSE]

\* handleDownload after generatePdf returned; setState does nothing once unmounted
DownloadTail ==
  /\ showDetails' = IF ReportMounted /\ ~download.shouldShowDetailsForPdf
                      THEN FALSE ELSE showDetails
  /\ isDownloading' = IF ReportMounted THEN FALSE ELSE isDownloading
  /\ download' = [pc |-> "idle", shouldShowDetailsForPdf |-> FALSE]

\* the 100 ms wait of handleDownload ends: generatePdf(reportRef.current) runs to its
\* first await, or returns at once
DomUpdated ==
  /\ download.pc = "domWait"
  /\ LET entry == generatePdfEntry(ReportMounted, libsLoaded) IN
       /\ IF entry = "capture"
            THEN /\ pdf' = [pc |-> "bgWait", originalBg |-> backgroundColor]
                 /\ backgroundColor' = CaptureBg
                 /\ download' = [download EXCEPT !.pc = "pdf"]
                 /\ UNCHANGED <<showDetails, isDownloading, alertText>>
            ELSE /\ alertText' = IF entry = "noLibs" THEN LibraryAlert ELSE alertText
                 /\ DownloadTail
                 /\ UNCHANGED <<pdf, backgroundColor>>
       /\ last' = [op |-> IF entry = "capture" THEN "exportStarted" ELSE "export",
                   outcome |-> entry]
  /\ UNCHANGED <<renderVars, overlayVars, appVars, shareText, libsLoaded, canShare, nDownloads, nRaster, nNative,
                 nClipboard, nTimers, nPresses, initialBg>>

\* the 200 ms wait of generatePdf ends: window.html2canvas(element, ...) is called
TransitionsSettled ==
  /\ pdf.pc = "bgWait"
  /\ pdf' = [pdf EXCEPT !.pc = "html2canvas"]
  /\ nRaster' = nRaster + 1
  /\ last' = [op |-> "rasterize"]
  /\ UNCHANGED <<renderVars, overlayVars, appVars, showDetails, isDownloading, shareText, download, backgroundColor,
                 libsLoaded, canShare, alertText, nDownloads, nNative, nClipboard, nTimers,
                 nPresses, initialBg>>

\* variant of Html2CanvasSettles: a failed export resets the controller
Html2CanvasSettles_ResetsOnFailure(outcome) ==
  /\ pdf.pc = "html2canvas"
  /\ backgroundColor' = generatePdfSettled(outcome, pdf.originalBg, backgroundColor)
  /\ alertText' = IF outcome = "saved" THEN alertText ELSE FailedAlert
  /\ pdf' = [pc |-> "none", originalBg |-> ""]
  /\ DownloadTail
  /\ IF outcome = "saved"
       THEN UNCHANGED <<image, analysisResult, appState, error, urls, pickerOpen, cams>>
       ELSE Commit(handleReset(Ctrl), cams, pickerOpen)
  /\ last' = [op |-> "export", outcome |-> outcome]
  /\ UNCHANGED <<renderVars, overlayVars, apiKey, calls, nStarted, nEncode, nNet, afterReset, shareText, libsLoaded,
                 canShare, nDownloads, nRaster, nNative, nClipboard, nTimers, nPresses,
                 initialBg>>

\* html2canvas settles and generatePdf runs to its end, then handleDownload to its end
Html2CanvasSettles(outcome) ==
  /\ pdf.pc = "html2canvas"
  /\ backgroundColor' = generatePdfSettled(outcome, pdf.originalBg, backgroundColor)
  /\ alertText' = IF outcome = "saved" THEN alertText ELSE FailedAlert
  /\ pdf' = [pc |-> "none", originalBg |-> ""]
  /\ DownloadTail
  /\ last' = [op |-> "export", outcome |-> outcome]
  /\ UNCHANGED <<renderVars, overlayVars, appVars, shareText, libsLoaded, canShare, nDownloads, nRaster, nNative,
                 nClipboard, nTimers, nPresses, initialBg>>

\* handleShare up to its await: navigator.share if defined, else clipboard.writeText
SharePress ==
  /\ ReportMounted
  /\ nPresses < MaxPresses
  /\ nPresses' = nPresses + 1
  /\ IF canShare
       THEN nNative' = nNative + 1 /\ UNCHANGED nClipboard
       ELSE nClipboard' = nClipboard + 1 /\ UNCHANGED nNative
  /\ last' = [op |-> "share", native |-> canShare]
  /\ UNCHANGED <<renderVars, overlayVars, appVars, showDetails, isDownloading, shareText, download, pdf,
                 backgroundColor, libsLoaded, canShare, alertText, nDownloads, nRaster,
                 nTimers, initialBg>>

\* navigator.share settles; a rejection is only logged
NativeShareSettles(ok) ==
  /\ nNative > 0
  /\ nNative' = nNative - 1
  /\ last' = [op |-> "shared", ok |-> ok]
  /\ UNCHANGED <<renderVars, overlayVars, appVars, showDetails, isDownloading, shareText, download, pdf,
                 backgroundColor, libsLoaded, canShare, alertText, nDownloads, nRaster,
                 nClipboard, nTimers, nPresses, initialBg>>

\* clipboard.writeText settles: the label changes and a 2 s timer is set
ClipboardSettles(ok) ==
  /\ nClipboard > 0
  /\ nClipboard' = nClipboard - 1
  /\ LET r == IF ok THEN handleShareCopied ELSE handleShareFailed IN
       /\ shareText' = IF ReportMounted THEN r.shareText ELSE shareText
       /\ nTimers' = nTimers + r.timers
  /\ last' = [op |-> "clipboard", ok |-> ok]
  /\ UNCHANGED <<renderVars, overlayVars, appVars, showDetails, isDownloading, download, pdf, backgroundColor,
                 libsLoaded, canShare, alertText, nDownloads, nRaster, nNative, nPresses,
                 initialBg>>

\* a 2 s timer fires: setShareText('Share')
ShareTextTimer ==
  /\ nTimers > 0
  /\ nTimers' = nTimers - 1
  /\ shareText' = IF ReportMounted THEN "Share" ELSE shareText
  /\ last' = [op |-> "revert"]
  /\ UNCHANGED <<renderVars, overlayVars, appVars, showDetails, isDownloading, download, pdf, backgroundColor,
                 libsLoaded, canShare, alertText, nDownloads, nRaster, nNative, nClipboard,
                 nPresses, initialBg>>

NextReport ==
  \/ ToggleDetails
  \/ DownloadClick
  \/ DomUpdated
  \/ TransitionsSettled
  \/ \E outcome \in ExportOutcomes : Html2CanvasSettles(outcome)
  \/ SharePress
  \/ \E ok \in BOOLEAN : NativeShareSettles(ok)
  \/ \E ok \in BOOLEAN : ClipboardSettles(ok)
  \/ ShareTextTimer
  \/ Reset

SpecReport == InitReport /\ [][NextReport]_vars

\* browser timers always fire
SpecReportFair == SpecReport /\ WF_vars(ShareTextTimer)

(* ---------------------------- AnnotatedImage -------------------------- *)
\* natural sizes of the images shown (chosen with the container widths so that
\* containerWidth / naturalWidth is a power of two and the products are exact)
Images == {[naturalWidth |-> 800, naturalHeight |-> 600],
           [naturalWidth |-> 400, naturalHeight |-> 600]}
\* widths the layout gives the container (max-w-md column, narrower on a small window)
ContainerWidths == {400, 200}
\* overlay lines as the service returns them; coordinates are normalized to [0,1] and
\* written here in tenths: (0.1,0.2)-(0.9,0.8) and (0.5,0)-(0.5,1)
LineSets == {<<[x1 |-> 1, y1 |-> 2, x2 |-> 9, y2 |-> 8]>>,
             <<[x1 |-> 1, y1 |-> 2, x2 |-> 9, y2 |-> 8], [x1 |-> 5, y1 |-> 0, x2 |-> 5, y2 |-> 10]>>}

\* img.onload: the overlay takes the container's width and the image's aspect ratio
imgOnload(img, offsetWidth) ==
  [width  |-> offsetWidth,
   height |-> (img.naturalHeight * offsetWidth) \div img.naturalWidth]

\* the attributes of one <line>, in tenths of a pixel (coordinates are in tenths)
lineEndpoints(line, dims) ==
  [x1 |-> line.x1 * dims.width, y1 |-> line.y1 * dims.height,
   x2 |-> line.x2 * dims.width, y2 |-> line.y2 * dims.height]

\* the size at which the layout shows <img className="w-full h-auto">
Displayed ==
  [width  |-> containerWidth,
   height |-> (imageSrc.naturalHeight * containerWidth) \div imageSrc.naturalWidth]

\* the AnnotatedImage has just been rendered inside a report: the effect made an Image
InitOverlay ==
  /\ ReportRendered
  /\ NoReport
  /\ NoRow /\ NoDocument /\ NoProgressBar
  /\ imageSrc \in Images
  /\ lines \in LineSets
  /\ containerWidth \in ContainerWidths
  /\ dimensions = [width |-> 0, height |-> 0]
  /\ loading = {imageSrc}
  /\ nSrc = 0

\* onload of an Image object made by the effect: setDimensions
ImgLoad(img) ==
  /\ img \in loading
  /\ dimensions' = imgOnload(img, containerWidth)
  /\ loading' = loading \ {img}
  /\ last' = [op |-> "onload", img |-> img]
  /\ UNCHANGED <<renderVars, appVars, reportVars, imageSrc, lines, containerWidth, nSrc>>

\* the layout changes the container's width (window resize, grid breakpoint): the
\* component renders again with the dimensions it has
ContainerResize(w) ==
  /\ w # containerWidth
  /\ containerWidth' = w
  /\ last' = [op |-> "resize", width |-> w]
  /\ UNCHANGED <<renderVars, appVars, reportVars, imageSrc, lines, dimensions, loading, nSrc>>

\* imageSrc changes: the effect runs again and makes a new Image (there is no cleanup)
ChangeImageSrc(img) ==
  /\ nSrc < MaxSrcChanges
  /\ img # imageSrc
  /\ imageSrc' = img
  /\ loading' = loading \cup {img}
  /\ nSrc' = nSrc + 1
  /\ last' = [op |-> "imageSrc", img |-> img]
  /\ UNCHANGED <<renderVars, appVars, reportVars, lines, containerWidth, dimensions>>

NextOverlay ==
  \/ \E img \in loading : ImgLoad(img)
  \/ \E w \in ContainerWidths : ContainerResize(w)
  \/ \E img \in Images : ChangeImageSrc(img)

SpecOverlay == InitOverlay /\ [][NextOverlay]_vars

(* ------------------------- detail rows, document ---------------------- *)
Deviations == (0 - MaxDeviation)..MaxDeviation

\* variant of deviationBand: the first threshold is exclusive
deviationBand_StrictFive(d) ==
  IF d < 5 THEN "text-green-400"
  ELSE IF d <= 15 THEN "text-yellow-400"
  ELSE "text-red-400"

\* the colour class of a detail row's deviation
deviationBand(d) ==
  IF d <= 5 THEN "text-green-400"
  ELSE IF d <= 15 THEN "text-yellow-400"
  ELSE "text-red-400"

\* a report is shown and one detail row is about to be rendered
InitBand ==
  /\ ReportRendered
  /\ NoReport /\ NoOverlay /\ NoDocument /\ NoProgressBar
  /\ deviation \in Deviations
  /\ band = "none"

\* the detail panel renders the row
RenderRow ==
  /\ band = "none"
  /\ band' = deviationBand(deviation)
  /\ last' = [op |-> "row"]
  /\ UNCHANGED <<appVars, reportVars, overlayVars, deviation, canvas, orientation, score,
                 width, timer, barMounted>>

NextBand == RenderRow

SpecBand == InitBand /\ [][NextBand]_vars

\* A4 width in mm
pdfWidth == 210
\* (canvas.height * pdfWidth) / canvas.width, kept exact as a fraction
pdfHeight(c) == [num |-> c.height * pdfWidth, den |-> c.width]

\* variant of pdfOrientation: a square bitmap counts as landscape
pdfOrientation_SquareLandscape(c) ==
  IF pdfWidth * pdfHeight(c).den >= pdfHeight(c).num THEN "landscape" ELSE "portrait"

\* pdfWidth > pdfHeight ? 'landscape' : 'portrait' (den is positive)
pdfOrientation(c) ==
  IF pdfWidth * pdfHeight(c).den > pdfHeight(c).num THEN "landscape" ELSE "portrait"

\* html2canvas has resolved with a canvas of positive width and height
InitPdf ==
  /\ ReportRendered
  /\ NoReport /\ NoOverlay /\ NoRow /\ NoProgressBar
  /\ canvas \in [width : 1..MaxCanvas, height : 1..MaxCanvas]
  /\ orientation = "none"

\* generatePdf creates the document
CreateDocument ==
  /\ orientation = "none"
  /\ orientation' = pdfOrientation(canvas)
  /\ last' = [op |-> "jsPDF"]
  /\ UNCHANGED <<appVars, reportVars, overlayVars, deviation, band, canvas, score, width,
                 timer, barMounted>>

NextPdf == CreateDocument

SpecPdf == InitPdf /\ [][NextPdf]_vars

(* ------------------------------ ProgressBar --------------------------- *)
\* feature scores (0 to 100)
Scores == {0, 45, 82, 90, 100}

\* a ProgressBar has just been rendered: width is 0 and the effect has set its timer
InitProgress ==
  /\ ReportRendered
  /\ NoReport /\ NoOverlay /\ NoRow /\ NoDocument
  /\ score \in Scores
  /\ width = 0
  /\ timer = [pending |-> TRUE, score |-> score]
  /\ barMounted = TRUE

\* the 100 ms timer fires: setWidth(score)
ProgressTimer ==
  /\ timer.pending
  /\ width' = timer.score
  /\ timer' = [pending |-> FALSE]
  /\ last' = [op |-> "progressTimer"]
  /\ UNCHANGED <<appVars, reportVars, overlayVars, deviation, band, canvas, orientation,
                 score, barMounted>>

\* variant of Rerender: the effect runs on every render and the bar starts again
Rerender_Reanimates ==
  /\ barMounted
  /\ width' = 0
  /\ timer' = [pending |-> TRUE, score |-> score]
  /\ last' = [op |-> "rerender"]
  /\ UNCHANGED <<appVars, reportVars, overlayVars, deviation, band, canvas, orientation,
                 score, barMounted>>

\* the report renders again with the same score: the effect's dependency did not change
Rerender ==
  /\ barMounted
  /\ last' = [op |-> "rerender"]
  /\ UNCHANGED <<appVars, reportVars, overlayVars, renderVars>>

\* the score prop changes: the cleanup clears the timer and the effect sets a new one
ScoreChange(s) ==
  /\ barMounted
  /\ s # score
  /\ score' = s
  /\ timer' = [pending |-> TRUE, score |-> s]
  /\ last' = [op |-> "score", score |-> s]
  /\ UNCHANGED <<appVars, reportVars, overlayVars, deviation, band, canvas, orientation,
                 width, barMounted>>

\* the ProgressBar unmounts: the cleanup clears the timer
UnmountBar ==
  /\ barMounted
  /\ barMounted' = FALSE
  /\ timer' = [pending |-> FALSE]
  /\ last' = [op |-> "unmountBar"]
  /\ UNCHANGED <<appVars, reportVars, overlayVars, deviation, band, canvas, orientation,
                 score, width>>

NextProgress ==
  \/ ProgressTimer
  \/ Rerender
  \/ \E s \in Scores : ScoreChange(s)
  \/ UnmountBar

SpecProgress == InitProgress /\ [][NextProgress]_vars

\* browser timers always fire
SpecProgressFair == SpecProgress /\ WF_vars(ProgressTimer)

(* ------------------------------- claims ------------------------------- *)
\* the MIME types the file input is specified to accept
SpecifiedTypes == {"image/jpeg", "image/png", "image/jpg"}

\* the last step was the settling of an analysis call that returned value v
Returned(l) == l.op = "settle" /\ l.outcome.settled = "returned"
\* the last step was the settling of an analysis call that failed
Failed(l) == l.op = "settle" /\ l.outcome.settled = "failed"
\* the last step supplied a file to the controller (file dialog or camera capture)
Supplied(l) == l.op = "upload" \/ (l.op = "capture" /\ l.file # Null)

\* C1: at most one analysis call is in flight at any time.
C1_AtMostOneInFlight == BagCardinality(calls) <= 1

\* C2: when the controller is Loading and the call returns a result whose error kind
\* is set, the controller moves to Error (never to Result) and shows the result's message.
C2_ErrorKindGoesToError ==
  [][(appState = Loading /\ Returned(last') /\ Truthy(last'.outcome.value, "error"))
       => /\ appState' = Error
          /\ "errorMessage" \in DOMAIN last'.outcome.value
          /\ error' = [msg |-> last'.outcome.value.errorMessage]]_vars

\* C3: when the controller is Loading and the call returns a result (an object) with no
\* error kind, the controller moves to Result and stores exactly the returned result.
C3_SuccessGoesToResult ==
  [][(appState = Loading /\ Returned(last') /\ last'.outcome.value # JsonNull
        /\ ~Truthy(last'.outcome.value, "error"))
       => /\ appState' = Result
          /\ analysisResult' = last'.outcome.value]_vars

C3_Witness ==
  /\ Returned(last) /\ last.outcome.value = OkResult
  /\ appState = Result /\ analysisResult = OkResult /\ image # Null

\* C4: when the call fails (configuration error, transport failure, parse failure) while
\* the controller is Loading, the controller moves to Error with a message built from the
\* failure's detail, and the stored result is unchanged.
C4_FailureGoesToError ==
  [][(appState = Loading /\ Failed(last')
        /\ last'.outcome.err \in {ConfigError, TransportError, ParseError})
       => /\ appState' = Error
          /\ error' = DetailsMsg(last'.outcome.err.message)
          /\ analysisResult' = analysisResult]_vars

\* a parse failure arrives while an earlier result is still stored
C4_Witness ==
  /\ Failed(last) /\ last.outcome.err = ParseError
  /\ appState = Error /\ error = DetailsMsg(ParseError.message)
  /\ analysisResult = OkResult

\* C5: reset in Result or Error yields Idle with no image, no result and no error text,
\* and until an image is supplied the controller stays Idle with no image and no result.
C5_ResetLeavesNothing ==
  [][/\ last'.op = "reset"
          => (appState' = Idle /\ image' = Null /\ analysisResult' = Null /\ error' = Null)
     /\ (afterReset /\ ~Supplied(last'))
          => (appState' = Idle /\ image' = Null /\ analysisResult' = Null)]_vars

\* C6: the attached image, and every image passed to the analysis client, has a MIME type
\* among image/jpeg, image/png, image/jpg.
C6_OnlyAcceptedTypes ==
  /\ image # Null => image.file.type \in SpecifiedTypes
  /\ \A call \in BagToSet(calls) : call.img # Null /\ call.img.file.type \in SpecifiedTypes

\* an image/jpg file is attached and is being analysed
C6_Witness ==
  /\ image # Null /\ image.file.type = "image/jpg"
  /\ \E call \in BagToSet(calls) : call.img = image /\ call.pc = "requesting"

\* C7: supplying a file of an unsupported type moves the controller to Error with the fixed
\* message and leaves the attached image and the stored result unchanged.
C7_UnsupportedTypeRejected ==
  [][(Supplied(last') /\ last'.file.type \notin SpecifiedTypes)
       => /\ appState' = Error
          /\ error' = UnsupportedMsg
          /\ image' = image
          /\ analysisResult' = analysisResult]_vars

\* a GIF was picked while a captured image was attached
C7_Witness ==
  /\ last.op = "upload" /\ last.file.type = "image/gif"
  /\ appState = Error /\ error = UnsupportedMsg /\ image = [file |-> CaptureFile]

\* C8: supplying a valid image while Idle leaves the controller Idle: the file becomes the
\* attached image, the error text is cleared, the stored result does not change.
C8_ValidImageInIdle ==
  [][(appState = Idle /\ Supplied(last') /\ last'.file.type \in SpecifiedTypes)
       => /\ appState' = Idle
          /\ image' = [file |-> last'.file]
          /\ error' = Null
          /\ analysisResult' = analysisResult]_vars

C8_Witness ==
  /\ last.op = "upload" /\ last.file.type = "image/png"
  /\ appState = Idle /\ image = [file |-> last.file] /\ error = Null

\* C9: analyze invoked with no image attached leaves the application state, the image and
\* the stored result unchanged, calls no service, and shows the user the text
\* 'Please upload an image to analyze.'.
C9_NoImageShowsInlineError ==
  [][(last'.op = "analyze" /\ image = Null)
       => /\ appState' = appState /\ image' = image /\ analysisResult' = analysisResult
          /\ calls' = calls /\ nStarted' = nStarted /\ nNet' = nNet
          /\ renderContent(Ctrl').text = NoImageMsg]_vars

\* C10: without a credential analyzeFace fails with the configuration error before any
\* encoding or network call, with or without an image; with a credential and no image it
\* fails with the input-required error, again without a call to the service.
C10_ChecksBeforeAnyCall ==
  [][/\ (last'.op = "direct" /\ ~apiKey)
          => /\ calls' = calls (+) SetToBag({[img |-> last'.img, pc |-> "threw",
                                              err |-> ConfigError, caller |-> "direct"]})
             /\ nEncode' = nEncode /\ nNet' = nNet
     /\ (last'.op = "direct" /\ apiKey /\ last'.img = Null)
          => /\ calls' = calls (+) SetToBag({[img |-> Null, pc |-> "threw",
                                              err |-> InputRequired, caller |-> "direct"]})
             /\ nEncode' = nEncode /\ nNet' = nNet
     /\ \A call \in BagToSet(calls) : call.pc = "threw"
          => /\ Failed(last') /\ last'.outcome.err = call.err
             /\ calls' = calls (-) SetToBag({call})
             /\ nEncode' = nEncode /\ nNet' = nNet]_vars

\* with a credential, analyzeFace(null) was rejected with the input-required error
C10_Witness ==
  /\ apiKey /\ Failed(last) /\ last.outcome.err = InputRequired
  /\ nEncode = 0 /\ nNet = 0 /\ nStarted > 0

\* the fields the response schema requires of a reply
RequiredFields == {"overallScore", "feedback", "featureScores", "detailedScores", "overlayLines"}
MatchesShape(v) == RequiredFields \subseteq DOMAIN v

\* C11: a reply that is not structured data of the expected shape makes analyzeFace fail
\* with the response-parse error; it is never returned to the controller, and never retried.
C11_MalformedReplyFails ==
  [][/\ Returned(last') => MatchesShape(last'.outcome.value)
     /\ last'.op = "settle" => (nNet' = nNet /\ nStarted' = nStarted)]_vars

\* C12: every analyze call that passed its checks invokes the service exactly once: the
\* number of service invocations equals the number of analyses that passed the checks
\* (once none of them is still reading its file).
C12_OneInvocationPerAnalysis ==
  (\A call \in BagToSet(calls) : call.pc # "encoding") => nNet = nEncode

\* C12 as amended: a call that passed its checks invokes the service at most once, and
\* exactly once when reading the file succeeds; nothing is retried and nothing is cached.
C12_AtMostOneInvocation ==
  [][/\ nNet' <= nEncode'
     /\ nNet' # nNet
          => /\ last'.op = "encoded" /\ nNet' = nNet + 1
             /\ \E call \in BagToSet(calls) :
                  /\ call.pc = "encoding"
                  /\ calls' = (calls (-) SetToBag({call}))
                                (+) SetToBag({[call EXCEPT !.pc = "requesting"]})
     /\ last'.op = "settle"
          => /\ nNet' = nNet /\ nStarted' = nStarted /\ nEncode' = nEncode
             /\ BagCardinality(calls') = BagCardinality(calls) - 1
     /\ \A call \in BagToSet(calls) :
          (call.pc = "encoding" /\ calls' = calls (-) SetToBag({call}))
            => (Failed(last') /\ last'.outcome.err = ReaderErrorEvent)
     /\ (last'.op = "analyze" /\ last'.started /\ apiKey)
          => /\ nEncode' = nEncode + 1
             /\ calls' = calls (+) SetToBag({[img |-> image, pc |-> "encoding",
                                              err |-> Null, caller |-> "app"]})]_vars

\* one analysis invoked the service once, another ended at the file read without invoking it
C12_Witness ==
  /\ Failed(last) /\ last.outcome.err = ReaderErrorEvent
  /\ nEncode = 2 /\ nNet = 1 /\ calls = EmptyBag

\* C13: once a camera view has closed or unmounted, none of its stream's tracks is active.
C13_NoTrackAfterClose == \A k \in DOMAIN cams : ~cams[k].mounted => ~cams[k].live

\* C18: a capture click does nothing without a live stream, and every image a capture
\* produces is a JPEG which the controller attaches: a capture never leads to Error.
C18_CaptureNeedsStream ==
  [][/\ (last'.op = "captureClick" /\ ~last'.took)
          => (cams' = cams /\ image' = image /\ appState' = appState /\ error' = error)
     /\ last'.op = "captureClick"
          => \A k \in DOMAIN cams :
               cams'[k].blobs > cams[k].blobs
                 => (cams[k].mounted /\ cams[k].stream /\ cams[k].live)
     /\ (last'.op = "capture" /\ last'.file # Null)
          => /\ last'.file.type = "image/jpeg"
             /\ appState' = Idle /\ image' = [file |-> last'.file] /\ error' = Null]_vars

\* a frame captured from a live stream was attached as the image
C18_Witness ==
  /\ last.op = "capture" /\ last.file # Null
  /\ appState = Idle /\ image = [file |-> CaptureFile] /\ error = Null

\* C14: each component holds at most one unreleased preview URL, none while it is not
\* rendered or has no image, and after a reset to Idle none remains.
C14_PreviewUrlsReleased ==
  /\ urls.box = (IF appState = Idle /\ image # Null THEN 1 ELSE 0)
  /\ urls.report = (IF renderContent(Ctrl).view = "AnalysisReport" /\ image # Null THEN 1 ELSE 0)
  /\ last.op = "reset" => urls = [box |-> 0, report |-> 0]

\* the report shows the analysed image under its own URL; the uploader's was released
C14_Witness ==
  /\ Returned(last) /\ appState = Result /\ image # Null
  /\ urls = [box |-> 0, report |-> 1]

\* C15: whenever no export is running the report region's background is what it was
\* before, on every path of generatePdf; without the libraries the background is never
\* changed and html2canvas is never called.
C15_BackgroundRestored ==
  /\ pdf.pc = "none" => backgroundColor = initialBg
  /\ last.op = "export" => (pdf.pc = "none" /\ backgroundColor = initialBg)
  /\ ~libsLoaded => (backgroundColor = initialBg /\ nRaster = 0 /\ pdf.pc = "none")

\* an export whose rasterization failed has ended with the background it started from
C15_Witness ==
  /\ last = [op |-> "export", outcome |-> "rasterFailed"]
  /\ nRaster = 1 /\ initialBg # "" /\ backgroundColor = initialBg

\* the last step was an export that failed
ExportFailed(l) == l.op = "export" /\ l.outcome \in {"noLibs", "rasterFailed", "documentFailed"}
\* the last step was a native share or a clipboard copy that failed
ShareFailed(l) == (l.op = "shared" \/ l.op = "clipboard") /\ ~l.ok

\* C16: a failed export or share leaves the controller as it was (in Result with the same
\* result and image while the report is shown); the failure only shows as an alert or as
\* the share label.
C16_FailureKeepsAnalysis ==
  [][(ExportFailed(last') \/ ShareFailed(last'))
       => /\ appState' = appState /\ analysisResult' = analysisResult
          /\ image' = image /\ error' = error
          /\ ReportMounted => (appState' = Result /\ analysisResult' = OkResult /\ image' # Null)
          /\ ExportFailed(last') => alertText' \in {LibraryAlert, FailedAlert}
          /\ (last'.op = "clipboard" /\ ReportMounted) => shareText' = "Failed!"]_vars

\* an export failed after a copy to the clipboard had failed; the report is still shown
C16_Witness ==
  /\ ExportFailed(last) /\ alertText = FailedAlert /\ shareText = "Failed!"
  /\ appState = Result /\ analysisResult = OkResult /\ image # Null

\* C17: without navigator.share a press copies the text to the clipboard; the label
\* becomes 'Copied!' on success and 'Failed!' on error, and it always reverts to 'Share'.
C17_ClipboardFallback ==
  /\ [][/\ (last'.op = "share" /\ ~canShare)
             => (nClipboard' = nClipboard + 1 /\ nNative' = nNative)
        /\ (last'.op = "clipboard" /\ ReportMounted)
             => shareText' = (IF last'.ok THEN "Copied!" ELSE "Failed!")]_vars
  /\ (shareText # "Share") ~> (shareText = "Share" \/ ~ReportMounted)

\* the label shows 'Failed!' after the second press, with no native share surface
C17_Witness ==
  /\ ~canShare /\ nPresses = 2 /\ ReportMounted
  /\ last = [op |-> "clipboard", ok |-> FALSE] /\ shareText = "Failed!"

\* C19: once the image has loaded, the endpoints of every overlay line are its normalized
\* coordinates times the displayed width (x) and the displayed height (y).
C19_EndpointsScaleDisplayed ==
  loading = {}
    => \A i \in DOMAIN lines : lineEndpoints(lines[i], dimensions) = lineEndpoints(lines[i], Displayed)

\* C20: the overlay's dimensions are recomputed when the container width or the image
\* changes: once the image has loaded they are the displayed width and height.
C20_DimensionsFollowLayout ==
  [][(last'.op = "resize" /\ loading' = {}) => dimensions' = Displayed']_vars

\* C24: an analysis outcome changes the controller only while it is Loading: every move
\* into Result or Error by an outcome starts in Loading, and an outcome that arrives when
\* the controller is not Loading changes neither appState, analysisResult nor error.
C24_OutcomeOnlyWhileLoading ==
  [][(last'.op = "settle" /\ last'.caller = "app" /\ appState # Loading)
       => (appState' = appState /\ analysisResult' = analysisResult /\ error' = error)]_vars

\* C25: whenever the controller is in Result an image is attached, and when an outcome
\* leads to Result the attached image is the one that was sent in the settled call.
C25_ResultShowsAnalysedImage ==
  [][appState' = Result
       => /\ image' # Null
          /\ Returned(last')
               => \E call \in BagToSet(calls) :
                    /\ calls' = calls (-) SetToBag({call})
                    /\ call.img = image']_vars

\* C26: Result implies a stored result and no error text, Error implies an error text,
\* Loading implies an attached image and no error text.
C26_StateInvariants ==
  /\ appState = Result => (analysisResult # Null /\ error = Null)
  /\ appState = Error => error # Null
  /\ appState = Loading => (image # Null /\ error = Null)

\* C27: a download starts only while isDownloading is false, remembers the detail panel's
\* visibility and opens the panel; until it completes only the user's toggle changes the
\* panel; when it completes, on every export outcome, isDownloading is false again and a
\* panel still open as the download left it gets the remembered visibility back.
C27_DownloadRestoresDetails ==
  [][/\ last'.op = "download"
          => /\ ~isDownloading /\ isDownloading'
             /\ download'.shouldShowDetailsForPdf = showDetails
             /\ showDetails'
     /\ (ReportMounted /\ download.pc # "idle" /\ showDetails' # showDetails)
          => last'.op \in {"toggleDetails", "export"}
     /\ (ReportMounted /\ isDownloading) => nDownloads' = nDownloads
     /\ (ReportMounted /\ last'.op = "export")
          => /\ ~isDownloading'
             /\ showDetails => showDetails' = download.shouldShowDetailsForPdf]_vars

\* a second download has completed with a failed export; the panel is closed as before
C27_Witness ==
  /\ last = [op |-> "export", outcome |-> "documentFailed"]
  /\ ReportMounted /\ nDownloads = 2 /\ ~isDownloading /\ ~showDetails

\* C21: the band of a detail row depends on its deviation alone: good up to 5, warn above
\* 5 up to 15, bad above 15.
C21_BandByDeviation ==
  band # "none"
    => /\ deviation <= 5 => band = "text-green-400"
       /\ (5 < deviation /\ deviation <= 15) => band = "text-yellow-400"
       /\ deviation > 15 => band = "text-red-400"

\* a row with deviation 15 was rendered in the warn band
C21_Witness == deviation = 15 /\ band = "text-yellow-400" /\ last.op = "row"

\* C22: the document is portrait when the bitmap's height is at least its width, and
\* landscape otherwise.
C22_PortraitIffTallOrSquare ==
  orientation # "none"
    => orientation = (IF canvas.height >= canvas.width THEN "portrait" ELSE "landscape")

\* a square bitmap gave a portrait document
C22_Witness ==
  /\ canvas.height = canvas.width /\ canvas.width > 1
  /\ orientation = "portrait" /\ last.op = "jsPDF"

\* C23: the bar starts at width 0; the timer of the effect sets it to the score; a render
\* with the same score leaves the width alone and never sets it back to 0.
C23_AnimatesOnce ==
  /\ [](last.op = "settle" => width = 0)
  /\ []((barMounted /\ ~timer.pending) => width = score)
  /\ [][/\ width' # width => (last'.op = "progressTimer" /\ width' = score)
        /\ last'.op = "rerender" => (width' = width /\ timer' = timer)
        /\ (score' = score /\ width = score) => width' = width
        /\ (width # 0 /\ width' = 0) => (score' = 0 /\ last'.op = "progressTimer")]_vars
  /\ (barMounted /\ timer.pending) ~> (width = score \/ ~barMounted)

\* the bar is at its target and the report has rendered again
C23_Witness ==
  /\ barMounted /\ last.op = "rerender" /\ score = 82 /\ width = 82 /\ ~timer.pending

=============================================================================
